---- MODULE Spec2Model ----
(***************************************************************************)
(* Batch coordinator of the photo watermark application (WatermarkApp):    *)
(* the pending list, the result list, the transient object URLs, the       *)
(* offloaded worker with its two timers, the main-thread fallback, the     *)
(* history write and the React effect that releases resources.             *)
(*                                                                         *)
(* React state is modelled at the granularity of event-loop tasks: one     *)
(* action is one handler or one resumption of an async function up to its  *)
(* next await.  The cleanup of the effect with dependencies                *)
(* [photos, processed] is run by React some time after each render in      *)
(* which one of the two lists was replaced; its exact moment is React's    *)
(* choice, so it is an action of its own (EffectCleanup), enabled while a  *)
(* replacement has not been followed by it yet.                            *)
(***************************************************************************)
EXTENDS Integers, Sequences, FiniteSets, Bags

\* ---------------------------------------------------------------- bounds
MaxFiles == 2          \* drafts in the pending list
MaxRuns == 2           \* batch starts over the whole session
MaxRequests == 2       \* reverse-geocoding requests in flight at once

\* ------------------------------------------------------ program constants
StartupGraceMs == 1500
OverallTimeoutMs == 60000

FileNames == {"a.jpg"}
LastModifiedValues == {1}

ProcessFailed == "processFailed"        \* t("processFailed")
WorkerErrorText == "workerError"        \* payload.message of a worker error

\* Strings that the code inspects are sequences of tokens: a run of digits
\* with an optional sign and fraction is one "num" token, a date
\* "YYYY:MM:DD" one "colonDate" token, "YYYY-MM-DD" one "dashDate" token, a
\* localized message one token of its own, any other word a "word" token.
Sp == [t |-> "sp", v |-> 0]
Comma == [t |-> "comma", v |-> 0]
Num(x) == [t |-> "num", v |-> x]
Word(k) == [t |-> "word", v |-> k]
ColonDate(k) == [t |-> "colonDate", v |-> k]
DashDate(k) == [t |-> "dashDate", v |-> k]

\* t("unknownLocation") and t("unknownDate"): the localized sentinels,
\* non-empty messages.
UnknownLocation == <<[t |-> "unknownLocation", v |-> 0]>>
UnknownDate == <<[t |-> "unknownDate", v |-> 0]>>

\* A tag that the file does not carry, and a tag with a description.
Absent == [present |-> FALSE, text |-> <<>>]
Tag(text) == [present |-> TRUE, text |-> text]

\* GpsCoord in units of 1e-7 degree, and undefined.
NoGps == [ok |-> FALSE, lat |-> 0, lon |-> 0]
Gps(lat, lon) == [ok |-> TRUE, lat |-> lat, lon |-> lon]

\* The value of a GPS tag: missing (or not a number), or a number.
NoNumber == [present |-> FALSE, value |-> 0]
GpsTag(x) == [present |-> TRUE, value |-> x]

\* What ExifReader.load finds in a file: it throws on an unreadable one.
Unreadable ==
  [readable |-> FALSE, DateTimeOriginal |-> Absent,
   DateTimeDigitized |-> Absent, DateTime |-> Absent,
   GPSLatitude |-> NoNumber, GPSLongitude |-> NoNumber,
   GPSLatitudeRef |-> "N", GPSLongitudeRef |-> "E"]

Exif(original, digitized, modified, lat, latRef, lon, lonRef) ==
  [readable |-> TRUE, DateTimeOriginal |-> original,
   DateTimeDigitized |-> digitized, DateTime |-> modified,
   GPSLatitude |-> lat, GPSLongitude |-> lon,
   GPSLatitudeRef |-> latRef, GPSLongitudeRef |-> lonRef]


\* The contents of the files a user may drop: without GPS tags; unreadable;
\* with two positions that agree to six decimals; with a third position, in
\* the southern hemisphere.
PlainExif ==
  Exif(Tag(<<ColonDate(1)>>), Absent, Absent, NoNumber, "N", NoNumber, "E")

GpsExifs ==
  {Exif(Tag(<<ColonDate(1)>>), Absent, Absent, GpsTag(10), "N", GpsTag(20), "E"),
   Exif(Absent, Absent, Absent, GpsTag(12), "N", GpsTag(20), "E"),
   Exif(Absent, Absent, Absent, GpsTag(30), "S", GpsTag(20), "E")}

File(name, lastModified, exif) ==
  [name |-> name, lastModified |-> lastModified, exif |-> exif]

PlainFiles ==
  {File(n, lm, PlainExif) : n \in FileNames, lm \in LastModifiedValues}

AllFiles ==
  {File(n, lm, e) : n \in FileNames, lm \in LastModifiedValues,
                    e \in {PlainExif, Unreadable} \cup GpsExifs}

\* What the geocoding service may answer: the request fails, a non-success
\* status, a body that is not JSON, JSON without display_name, and JSON with
\* a display_name, which may be empty.
Response(net, ok, json, hasName, name) ==
  [net |-> net, ok |-> ok, json |-> json, hasName |-> hasName, name |-> name]

Responses ==
  {Response(FALSE, FALSE, FALSE, FALSE, <<>>),
   Response(TRUE, FALSE, TRUE, FALSE, <<>>),
   Response(TRUE, TRUE, FALSE, FALSE, <<>>),
   Response(TRUE, TRUE, TRUE, FALSE, <<>>),
   Response(TRUE, TRUE, TRUE, TRUE, <<>>),
   Response(TRUE, TRUE, TRUE, TRUE, <<Word(1)>>),
   Response(TRUE, TRUE, TRUE, TRUE, <<Word(2)>>)}

\* A hex digit is its value; Hash stands for the character "#".
Hash == 16

\* lib/fonts: fontFamilies, by key.
fontFamilies ==
  [sans |-> "ui-sans-serif", serif |-> "ui-serif", mono |-> "ui-monospace",
   roboto |-> "var(--font-roboto)", playfair |-> "var(--font-playfair)",
   jetbrains |-> "var(--font-jetbrains)"]

\* The initial style, and the styles the settings panel can be set to
\* (opacity in hundredths).
DefaultStyle ==
  [fontFamilyKey |-> "sans", fontSize |-> 32,
   color |-> <<Hash, 15, 15, 15, 15, 15, 15>>, opacity |-> 95,
   showLocation |-> TRUE]

Styles ==
  {DefaultStyle,
   [fontFamilyKey |-> "serif", fontSize |-> 48,
    color |-> <<Hash, 15, 0, 0>>, opacity |-> 50, showLocation |-> FALSE]}

\* No settings: before the first run, and in a worker that does not exist.
NoSettings == [fontFamily |-> "none"]

VARIABLES
  mounted,        \* the component is mounted
  canUseWorker,   \* Worker, OffscreenCanvas and createImageBitmap all exist
  user,           \* a user is signed in and the database is configured
  photos,         \* useState photos: sequence of PhotoDraft
  processed,      \* useState processed: sequence of ProcessedPhoto
  progress,       \* useState progress
  isProcessing,   \* useState isProcessing
  errorMsg,       \* useState errorMsg
  revoked,        \* object URLs passed to URL.revokeObjectURL
  effPhotos,      \* photos captured by the mounted effect's cleanup closure
  effProcessed,   \* processed captured by the mounted effect's cleanup closure
  effDirty,       \* photos or processed was replaced since the effect mounted
  run,            \* number of batch starts so far; the current run's number
  runPhotos,      \* photos captured by the processPhotos closure
  results,        \* local array results of the current processPhotos call
  pc,             \* position of the current processPhotos call
  mIdx,           \* index of processInMainThread's loop
  settled,        \* local settled of the promise executor
  gotAnyMessage,  \* local gotAnyMessage
  shouldFallback, \* local shouldFallbackToMainThread
  startupArmed,   \* startupTimeoutId is pending
  overallArmed,   \* timeoutId of the current run is pending
  staleTimers,    \* pending 60 s timers of earlier runs
  workerRef,      \* run whose worker workerRef.current holds, 0 for null
  workerAlive,    \* that worker has not been terminated
  wState,         \* worker side: "none", "running", "stopped"
  wNext,          \* worker side: loop index i
  outbox,         \* messages posted by the worker, not yet delivered
  addDocCall,     \* the addDoc call of the current processPhotos call, if any
  endCause,       \* how the current run's wait ended / what failed in it
  wFailedAt,      \* 1-based index of the image the worker failed on, else 0
  mFailedAt,      \* 1-based index of the image the main thread failed on, else 0
  style,          \* useState style
  runSettings,    \* settingsForRender captured by the processPhotos closure
  wSettings,      \* worker side: settings of the message it was started with
  droppable,      \* the files the user has at hand to drop
  geocodeCache,   \* geocodeCacheRef.current: pairs <<key, text>>
  requests,       \* bag of reverseGeocode calls in flight
  call,           \* the function last applied on its own, with its arguments
  ret             \* what it returned

vars == <<mounted, canUseWorker, user, photos, processed, progress, isProcessing,
          errorMsg, revoked, effPhotos, effProcessed, effDirty, run, runPhotos, results, pc, mIdx, settled, gotAnyMessage,
          shouldFallback, startupArmed, overallArmed, staleTimers, workerRef, workerAlive,
          wState, wNext, outbox, addDocCall, endCause, wFailedAt,
          mFailedAt, style, runSettings, wSettings, droppable, geocodeCache,
          requests, call, ret>>

\* Groups of variables, for UNCHANGED.
uiVars == <<photos, processed, progress, isProcessing, errorMsg>>
effVars == <<effPhotos, effProcessed, effDirty>>
runVars == <<run, runPhotos, results, pc, mIdx, settled, gotAnyMessage,
             shouldFallback>>
timerVars == <<startupArmed, overallArmed, staleTimers>>
workerVars == <<workerRef, workerAlive, wState, wNext, outbox>>
ghostVars == <<endCause, wFailedAt, mFailedAt>>
styleVars == <<style, runSettings, wSettings>>
geoVars == <<geocodeCache, requests>>
fnVars == <<call, ret>>
batchVars == <<canUseWorker, user, processed, progress, isProcessing, runVars,
               timerVars, workerVars, addDocCall, ghostVars, styleVars>>

\* ---------------------------------------------------------------- helpers
Range(s) == {s[i] : i \in 1..Len(s)}

Urls(s) == {s[i].url : i \in 1..Len(s)}

\* `${file.name}-${index}-${file.lastModified}`
DraftId(name, index, lastModified) == <<name, index, lastModified>>

\* URL.createObjectURL(file) for the draft that takes position k of photos:
\* a URL different from every URL a list still refers to.
SourceUrl(k) == <<"src", k>>

\* URL.createObjectURL(blob) for image i of run r
OutputUrl(r, i) == <<"out", r, i>>

\* No addDoc call has been made by the current processPhotos call.
NoCall == [fileCount |-> 0]

Msg(type, a, b) == [type |-> type, a |-> a, b |-> b]

\* String.replace("#", ""): the first "#" is removed.
RECURSIVE RemoveFirstHash(_)
RemoveFirstHash(hex) ==
  IF hex = <<>> THEN <<>>
  ELSE IF Head(hex) = Hash THEN Tail(hex)
  ELSE <<Head(hex)>> \o RemoveFirstHash(Tail(hex))

\* Number.parseInt(digits, 16) of a string of hex digits.
RECURSIVE ParseHex(_)
ParseHex(digits) ==
  IF digits = <<>> THEN 0
  ELSE ParseHex(SubSeq(digits, 1, Len(digits) - 1)) * 16 + digits[Len(digits)]

hexToRgb(hex) ==
  LET normalized == RemoveFirstHash(hex)
      parsed == IF Len(normalized) = 3
                  THEN <<normalized[1], normalized[1], normalized[2],
                         normalized[2], normalized[3], normalized[3]>>
                  ELSE normalized
      n == ParseHex(parsed)
  IN  [r |-> (n \div 65536) % 256, g |-> (n \div 256) % 256, b |-> n % 256]

\* settingsForRender, the useMemo over style.
SettingsForRender(st) ==
  LET rgb == hexToRgb(st.color)
  IN  [fontFamily |-> fontFamilies[st.fontFamilyKey],
       fontSize |-> st.fontSize,
       textColor |-> [r |-> rgb.r, g |-> rgb.g, b |-> rgb.b, a |-> st.opacity],
       showLocation |-> st.showLocation,
       unknownLocationText |-> UnknownLocation]

\* workerSettings: the five fields copied into the message to the worker.
WorkerSettingsOf(settings) ==
  [fontFamily |-> settings.fontFamily,
   fontSize |-> settings.fontSize,
   textColor |-> settings.textColor,
   showLocation |-> settings.showLocation,
   unknownLocationText |-> settings.unknownLocationText]

\* ------------------------------------------------------- text functions
\* String.trim at the granularity of tokens.
RECURSIVE TrimStart(_)
TrimStart(text) ==
  IF text # <<>> /\ Head(text) = Sp THEN TrimStart(Tail(text)) ELSE text

RECURSIVE TrimEnd(_)
TrimEnd(text) ==
  IF text # <<>> /\ text[Len(text)] = Sp
    THEN TrimEnd(SubSeq(text, 1, Len(text) - 1))
    ELSE text

Trim(text) == TrimEnd(TrimStart(text))

\* raw.replace(/^(\d{4}):(\d{2}):(\d{2})/, "$1-$2-$3")
ReplaceLeadingDate(text) ==
  IF text # <<>> /\ Head(text).t = "colonDate"
    THEN <<DashDate(Head(text).v)>> \o Tail(text)
    ELSE text

formatExifDate(raw, fallback) ==
  IF ~raw.present \/ Len(Trim(raw.text)) = 0
    THEN fallback
    ELSE ReplaceLeadingDate(Trim(raw.text))

\* a ?? b ?? c over the three tags' descriptions: only a missing tag is
\* nullish.
FirstDescription(exif) ==
  IF exif.DateTimeOriginal.present THEN exif.DateTimeOriginal
  ELSE IF exif.DateTimeDigitized.present THEN exif.DateTimeDigitized
  ELSE exif.DateTime

\* onDrop's shotAt.
ShotAt(exif) == formatExifDate(FirstDescription(exif), UnknownDate)

Abs(x) == IF x < 0 THEN -x ELSE x

parseExifGps(exif) ==
  IF ~exif.GPSLatitude.present \/ ~exif.GPSLongitude.present
    THEN NoGps
    ELSE Gps(IF exif.GPSLatitudeRef = "S"
               THEN -Abs(exif.GPSLatitude.value) ELSE exif.GPSLatitude.value,
             IF exif.GPSLongitudeRef = "W"
               THEN -Abs(exif.GPSLongitude.value) ELSE exif.GPSLongitude.value)

\* Number.toFixed(6) of a value in units of 1e-7: the value in units of 1e-6,
\* rounded half away from zero.
ToFixed6(x) == IF x < 0 THEN -((Abs(x) + 5) \div 10) ELSE (x + 5) \div 10

\* `${gps.lat.toFixed(6)},${gps.lon.toFixed(6)}`
GeocodeKey(gps) == <<ToFixed6(gps.lat), ToFixed6(gps.lon)>>

\* `${gps.lat.toFixed(6)}, ${gps.lon.toFixed(6)}`
FallbackLocation(gps) ==
  <<Num(ToFixed6(gps.lat)), Comma, Sp, Num(ToFixed6(gps.lon))>>

\* ParseFile as it would be if the catch left the timestamp empty instead of
\* putting the sentinel.
ParseFileBlankOnError(file, index, pos) ==
  LET gps == parseExifGps(file.exif)
  IN  IF file.exif.readable
        THEN [id |-> DraftId(file.name, index, file.lastModified),
              url |-> SourceUrl(pos), file |-> file,
              name |-> file.name, isGeocoding |-> FALSE,
              shotAt |-> ShotAt(file.exif),
              locationText |-> IF gps.ok THEN FallbackLocation(gps)
                                         ELSE UnknownLocation,
              gps |-> gps]
        ELSE [id |-> DraftId(file.name, index, file.lastModified),
              url |-> SourceUrl(pos), file |-> file,
              name |-> file.name, isGeocoding |-> FALSE,
              shotAt |-> <<>>,
              locationText |-> UnknownLocation,
              gps |-> NoGps]

\* The draft onDrop makes of one accepted file: the callback of
\* acceptedFiles.map, with its try and its catch.  pos is the place the draft
\* takes in photos.
ParseFile(file, index, pos) ==
  LET gps == parseExifGps(file.exif)
  IN  IF file.exif.readable
        THEN [id |-> DraftId(file.name, index, file.lastModified),
              url |-> SourceUrl(pos), file |-> file,
              name |-> file.name, isGeocoding |-> FALSE,
              shotAt |-> ShotAt(file.exif),
              locationText |-> IF gps.ok THEN FallbackLocation(gps)
                                         ELSE UnknownLocation,
              gps |-> gps]
        ELSE [id |-> DraftId(file.name, index, file.lastModified),
              url |-> SourceUrl(pos), file |-> file,
              name |-> file.name, isGeocoding |-> FALSE,
              shotAt |-> UnknownDate,
              locationText |-> UnknownLocation,
              gps |-> NoGps]

\* ------------------------------------------------------ reverse geocoding
\* What an async call comes to: a value, null, or a rejection.
Value(text) == [kind |-> "value", text |-> text]
Null == [kind |-> "null", text |-> <<>>]
Throws == [kind |-> "throw", text |-> <<>>]

reverseGeocode(resp) ==
  IF ~resp.net THEN Throws
  ELSE IF ~resp.ok THEN Null
  ELSE IF ~resp.json THEN Throws
  ELSE IF resp.hasName THEN Value(resp.name)
  ELSE Null

\* geocodeCacheRef.current.get(key): the text, or <<>> for undefined.
CacheGet(cache, key) ==
  IF \E e \in cache : e[1] = key
    THEN (CHOOSE e \in cache : e[1] = key)[2]
    ELSE <<>>

\* geocodeCacheRef.current.set(key, text)
CacheSet(cache, key, text) ==
  {e \in cache : e[1] # key} \cup {<<key, text>>}

\* SetLocation as it would be if the update did not compare ids.
SetLocationEveryEntry(prev, photoId, text) ==
  [i \in 1..Len(prev) |->
     [prev[i] EXCEPT !.locationText = text, !.isGeocoding = FALSE]]

\* prev.map((p) => (p.id === photoId ? {...p, ...} : p)), for the two shapes
\* of update triggerReverseGeocode makes.
SetLocation(prev, photoId, text) ==
  [i \in 1..Len(prev) |->
     IF prev[i].id = photoId
       THEN [prev[i] EXCEPT !.locationText = text, !.isGeocoding = FALSE]
       ELSE prev[i]]

SetGeocoding(prev, photoId, flag) ==
  [i \in 1..Len(prev) |->
     IF prev[i].id = photoId
       THEN [prev[i] EXCEPT !.isGeocoding = flag]
       ELSE prev[i]]

\* triggerReverseGeocode up to its await, as an update of photos: the cached
\* text, or the flag of a request about to be issued.
TriggerUpdate(prev, cache, photoId, gps) ==
  IF CacheGet(cache, GeocodeKey(gps)) # <<>>
    THEN SetLocation(prev, photoId, CacheGet(cache, GeocodeKey(gps)))
    ELSE SetGeocoding(prev, photoId, TRUE)

\* parsed.forEach(...): the updates of all items from the k-th on, in order.
RECURSIVE TriggerAll(_, _, _, _)
TriggerAll(prev, cache, parsed, k) ==
  IF k > Len(parsed) THEN prev
  ELSE IF ~parsed[k].gps.ok THEN TriggerAll(prev, cache, parsed, k + 1)
  ELSE TriggerAll(TriggerUpdate(prev, cache, parsed[k].id, parsed[k].gps),
                  cache, parsed, k + 1)

\* The reverseGeocode calls these items issue: one per item with a position
\* whose key is not cached.
Request(photoId, gps) == [id |-> photoId, key |-> GeocodeKey(gps)]

RECURSIVE IssuedBy(_, _, _)
IssuedBy(cache, parsed, k) ==
  IF k > Len(parsed) THEN EmptyBag
  ELSE IF parsed[k].gps.ok /\ CacheGet(cache, GeocodeKey(parsed[k].gps)) = <<>>
    THEN SetToBag({Request(parsed[k].id, parsed[k].gps)})
           (+) IssuedBy(cache, parsed, k + 1)
  ELSE IssuedBy(cache, parsed, k + 1)

\* AfterResolve as it would be without the catch: a rejected request leaves
\* the flag as it is.
AfterResolveNoCatch(prev, photoId, outcome) ==
  IF outcome.kind = "throw" THEN prev
  ELSE IF outcome.kind = "value" /\ outcome.text # <<>>
    THEN SetLocation(prev, photoId, outcome.text)
  ELSE SetGeocoding(prev, photoId, FALSE)

\* AfterResolve as it would be if it tested text !== null: an empty name
\* replaces the location too.
AfterResolveAnyText(prev, photoId, outcome) ==
  IF outcome.kind = "value"
    THEN SetLocation(prev, photoId, outcome.text)
    ELSE SetGeocoding(prev, photoId, FALSE)

\* triggerReverseGeocode after its await, as an update of photos: a non-empty
\* text replaces the location; null, an empty text and a rejection only clear
\* the flag.
AfterResolve(prev, photoId, outcome) ==
  IF outcome.kind = "value" /\ outcome.text # <<>>
    THEN SetLocation(prev, photoId, outcome.text)
    ELSE SetGeocoding(prev, photoId, FALSE)

\* -------------------------------------------------------- watermark lines
\* /^-?\d+(?:\.\d+)?\s*,\s*-?\d+(?:\.\d+)?$/.test(text)
IsNumericPair(text) ==
  /\ Len(text) >= 3
  /\ text[1].t = "num" /\ text[Len(text)].t = "num"
  /\ \E c \in 2..(Len(text) - 1) :
       /\ text[c] = Comma
       /\ \A i \in (2..(Len(text) - 1)) \ {c} : text[i] = Sp

isUnknownLocationText(text, tUnknown) ==
  \/ Len(Trim(text)) = 0
  \/ Trim(text) = tUnknown
  \/ IsNumericPair(Trim(text))

\* Array.filter(Boolean) over strings: the empty ones go.
RECURSIVE FilterBoolean(_)
FilterBoolean(lines) ==
  IF lines = <<>> THEN <<>>
  ELSE IF Head(lines) = <<>> THEN FilterBoolean(Tail(lines))
  ELSE <<Head(lines)>> \o FilterBoolean(Tail(lines))

\* MainLines as it would be without the test of settings.showLocation.
MainLinesIgnoresSwitch(item, settings) ==
  LET lines == FilterBoolean(<<item.shotAt>>)
      unknown == isUnknownLocationText(item.locationText,
                                       settings.unknownLocationText)
  IN  IF ~unknown
        THEN Append(lines, item.locationText)
        ELSE lines

\* The lines processInMainThread draws for a draft.
MainLines(item, settings) ==
  LET lines == FilterBoolean(<<item.shotAt>>)
      unknown == isUnknownLocationText(item.locationText,
                                       settings.unknownLocationText)
  IN  IF settings.showLocation /\ ~unknown
        THEN Append(lines, item.locationText)
        ELSE lines

\* WorkerLines as it would be if the worker compared the location with the
\* sentinel only, without the test for a bare pair of numbers.
WorkerLinesSentinelOnly(item, settings) ==
  LET unknown == item.locationText = settings.unknownLocationText
  IN  FilterBoolean(<<item.shotAt,
                      IF settings.showLocation /\ ~unknown
                        THEN item.locationText ELSE <<>> >>)

\* The lines the worker's processOne draws for a draft.
WorkerLines(item, settings) ==
  LET unknown == \/ item.locationText = settings.unknownLocationText
                 \/ IsNumericPair(Trim(item.locationText))
  IN  FilterBoolean(<<item.shotAt,
                      IF settings.showLocation /\ ~unknown
                        THEN item.locationText ELSE <<>> >>)

\* ----------------------------------------------------- watermark geometry
Max(a, b) == IF a > b THEN a ELSE b

\* Math.round(n / d) for n >= 0: halves go up.
RoundDiv(n, d) == (2 * n + d) \div (2 * d)

\* Math.max(10, Math.round(settings.fontSize)); the size is a whole number
\* of pixels (a range input with step 1), which Math.round leaves as it is.
FontSize(settings) == Max(10, settings.fontSize)

\* Math.round(fontSize * 1.4)
LineHeight(fontSize) == RoundDiv(fontSize * 14, 10)

\* Math.round(fontSize * 0.7).  The double nearest to 0.7 is below 0.7; for
\* the sizes 45 and 85 the product comes out just below the half and is
\* rounded down, for every other size up to 100 as the exact product is.
PadX(fontSize) ==
  IF fontSize \in {45, 85}
    THEN (fontSize * 7) \div 10
    ELSE RoundDiv(fontSize * 7, 10)

\* Math.round(fontSize * 0.5)
PadY(fontSize) == RoundDiv(fontSize * 5, 10)

\* Math.max(16, Math.round(bitmap.width * 0.01))
Margin(bitmap) == Max(16, RoundDiv(bitmap.width, 100))

\* ctx.measureText(text).width in tenths of a pixel, as the canvas gives it
\* for the font in force: widths[1] for the timestamp's text, widths[2] for
\* any other text.
MeasureText(text, item, widths) ==
  IF text = item.shotAt THEN widths[1] ELSE widths[2]

\* lines.reduce((m, text) => Math.max(m, ctx.measureText(text).width), 0)
RECURSIVE MaxWidth(_, _, _)
MaxWidth(lines, item, widths) ==
  IF lines = <<>> THEN 0
  ELSE Max(MaxWidth(SubSeq(lines, 1, Len(lines) - 1), item, widths),
           MeasureText(lines[Len(lines)], item, widths))

\* Math.round(lines.length * lineHeight + padY * 2)
BoxHeight(lines, settings) ==
  Len(lines) * LineHeight(FontSize(settings)) + PadY(FontSize(settings)) * 2

\* LayoutBox as it would be without Math.max(0, ...) around the two
\* coordinates.
LayoutBoxUnclamped(lines, item, settings, bitmap, widths) ==
  LET fontSize == FontSize(settings)
      lineHeight == LineHeight(fontSize)
      padX == PadX(fontSize)
      padY == PadY(fontSize)
      margin == Margin(bitmap)
      boxWidth == RoundDiv(MaxWidth(lines, item, widths) + padX * 2 * 10, 10)
      boxHeight == BoxHeight(lines, settings)
      x == bitmap.width - boxWidth - margin
      y == bitmap.height - boxHeight - margin
  IN  [x |-> x, y |-> y, width |-> boxWidth, height |-> boxHeight,
       textX |-> x + padX,
       baselines |-> [i \in 1..Len(lines) |->
                        100 * (y + padY) + lineHeight * (100 * (i - 1) + 82)]]

\* The panel both paths compute from the lines: the rectangle, the x of the
\* text and the baseline of each line (in hundredths of a pixel).
LayoutBox(lines, item, settings, bitmap, widths) ==
  LET fontSize == FontSize(settings)
      lineHeight == LineHeight(fontSize)
      padX == PadX(fontSize)
      padY == PadY(fontSize)
      margin == Margin(bitmap)
      boxWidth == RoundDiv(MaxWidth(lines, item, widths) + padX * 2 * 10, 10)
      boxHeight == BoxHeight(lines, settings)
      x == Max(0, bitmap.width - boxWidth - margin)
      y == Max(0, bitmap.height - boxHeight - margin)
  IN  [x |-> x, y |-> y, width |-> boxWidth, height |-> boxHeight,
       textX |-> x + padX,
       baselines |-> [i \in 1..Len(lines) |->
                        100 * (y + padY) + lineHeight * (100 * (i - 1) + 82)]]

\* processInMainThread's and the worker's geometry for a draft.
MainLayout(item, settings, bitmap, widths) ==
  LayoutBox(MainLines(item, settings), item, settings, bitmap, widths)

WorkerLayout(item, settings, bitmap, widths) ==
  LayoutBox(WorkerLines(item, settings), item, settings, bitmap, widths)

\* ProcessedPhoto as it would be if the paths read the pending list of the
\* current render instead of the list the run was started with.
ProcessedPhotoLive(r, i, by, settings) ==
  LET item == IF i <= Len(photos) THEN photos[i] ELSE runPhotos[i]
  IN  [id |-> item.id, url |-> OutputUrl(r, i), idx |-> i, by |-> by,
       settings |-> settings,
       shotAt |-> item.shotAt, locationText |-> item.locationText]

\* The entry for image i of run r, made from the draft the run was started
\* with; settings are those its blob was drawn with.
ProcessedPhoto(r, i, by, settings) ==
  LET item == runPhotos[i]
  IN  [id |-> item.id, url |-> OutputUrl(r, i), idx |-> i, by |-> by,
       settings |-> settings,
       shotAt |-> item.shotAt, locationText |-> item.locationText]

\* URL.revokeObjectURL on every URL of S.  Object URLs are never reused, so
\* only the revoked URLs that something still refers to are remembered: the
\* two lists, the run's result array and the lists held by the effect's
\* cleanup closure.
RevokeAll(S) ==
  revoked' = (revoked \cup S) \cap
               (Urls(photos') \cup Urls(processed') \cup Urls(results')
                  \cup Urls(effPhotos') \cup Urls(effProcessed'))

\* A function applied on its own: its name and its arguments (those it does
\* not take stay at a fixed value), and what it gave: a text or null or a
\* rejection, or a list of lines.
NoBitmap == [width |-> 1, height |-> 1]

NoBox == [x |-> 0, y |-> 0, width |-> 0, height |-> 0, textX |-> 0,
          baselines |-> <<>>]

Call(fn, exif, resp, item, settings) ==
  [fn |-> fn, exif |-> exif, resp |-> resp, item |-> item,
   settings |-> settings, bitmap |-> NoBitmap, widths |-> <<0, 0>>]

Ret(out, lines) == [out |-> out, lines |-> lines, box |-> NoBox]

NoItem == [shotAt |-> <<>>, locationText |-> <<>>]

\* No function has been applied on its own yet.
NoCallYet ==
  Call("none", Unreadable, Response(FALSE, FALSE, FALSE, FALSE, <<>>), NoItem,
       SettingsForRender(DefaultStyle))

NoRet == Ret(Null, <<>>)

\* ------------------------------------------------------------------ Init
\* The component after its first render; no function has been applied on its
\* own.
FreshApp ==
  /\ mounted = TRUE
  /\ canUseWorker \in BOOLEAN
  /\ user \in BOOLEAN
  /\ photos = <<>> /\ processed = <<>>
  /\ progress = [done |-> 0, total |-> 0]
  /\ isProcessing = FALSE /\ errorMsg = ""
  /\ revoked = {}
  /\ effPhotos = <<>> /\ effProcessed = <<>> /\ effDirty = FALSE
  /\ run = 0 /\ runPhotos = <<>> /\ results = <<>>
  /\ pc = "idle" /\ mIdx = 0
  /\ settled = FALSE /\ gotAnyMessage = FALSE /\ shouldFallback = FALSE
  /\ startupArmed = FALSE /\ overallArmed = FALSE /\ staleTimers = 0
  /\ workerRef = 0 /\ workerAlive = FALSE /\ wState = "none" /\ wNext = 0
  /\ outbox = <<>>
  /\ addDocCall = NoCall
  /\ endCause = "none" /\ wFailedAt = 0 /\ mFailedAt = 0
  /\ style = DefaultStyle /\ runSettings = NoSettings /\ wSettings = NoSettings
  /\ geocodeCache = {} /\ requests = EmptyBag

FreshMount == FreshApp /\ call = NoCallYet /\ ret = NoRet

\* The batch coordinator is explored with files that carry no position, so
\* that no geocoding goes on beside it.
Init == FreshMount /\ droppable = PlainFiles

\* The intake is explored with every kind of file and no batch run; it reads
\* neither canUseWorker nor user, which are fixed.
IntakeInit == FreshMount /\ droppable = AllFiles /\ canUseWorker /\ ~user

\* ------------------------------------------------- shared pieces of code
\* worker.terminate(): the worker stops and its undelivered messages are
\* discarded; a no-op on a worker that is not running (or on null).
TerminateWorker ==
  /\ workerAlive' = FALSE
  /\ outbox' = <<>>
  /\ wState' = "none"
  /\ wNext' = 0
  /\ wSettings' = NoSettings

\* The tail of processPhotos after the pipeline returned normally: the
\* history write if a user is signed in and something was produced, else the
\* finally block.
AfterPipeline ==
  IF user /\ Len(results) > 0
    THEN /\ addDocCall' = [fileCount |-> Len(results)]
         /\ pc' = "history"
         /\ isProcessing' = isProcessing
    ELSE /\ addDocCall' = addDocCall
         /\ pc' = "done"
         /\ isProcessing' = FALSE

\* finish() followed by the continuation of the awaited promise.
Finish ==
  IF settled
    THEN UNCHANGED <<settled, pc, mIdx, isProcessing, addDocCall>>
    ELSE /\ settled' = TRUE
         /\ IF shouldFallback'
              THEN /\ pc' = "fallback" /\ mIdx' = 0
                   /\ UNCHANGED <<isProcessing, addDocCall>>
              ELSE /\ mIdx' = mIdx
                   /\ AfterPipeline

\* ------------------------------------------------------------ user input
\* onDrop with the files it is handed: every accepted file becomes one draft
\* appended to photos, and each draft that has a position starts
\* triggerReverseGeocode, which runs up to its await inside the same task.
DropFiles(files) ==
  LET parsed == [i \in 1..Len(files) |->
                   ParseFile(files[i], i - 1, Len(photos) + i)]
  IN  /\ mounted /\ ~effDirty
      /\ ~isProcessing
      /\ Len(photos) + Len(files) <= MaxFiles
      /\ requests' = requests (+) IssuedBy(geocodeCache, parsed, 1)
      /\ BagCardinality(requests') <= MaxRequests
      /\ photos' = TriggerAll(photos \o parsed, geocodeCache, parsed, 1)
      /\ errorMsg' = ""
      /\ effDirty' = TRUE
      /\ UNCHANGED <<mounted, canUseWorker, user, processed, progress,
                     isProcessing, revoked, effPhotos, effProcessed, runVars,
                     timerVars, workerVars, addDocCall, ghostVars, styleVars,
                     droppable, geocodeCache, fnVars>>

\* A drop of one or more of the files at hand.
Drop ==
  \E n \in 1..MaxFiles : \E files \in [1..n -> droppable] : DropFiles(files)

\* The settings panel's onChange: setStyle.  The panel stays enabled while a
\* run is in progress.
SetStyle ==
  /\ mounted /\ ~effDirty
  /\ \E st \in Styles \ {style} : style' = st
  /\ UNCHANGED <<mounted, canUseWorker, user, uiVars, revoked, effVars,
                 runVars, timerVars, workerVars, addDocCall, ghostVars,
                 runSettings, wSettings>>
  /\ UNCHANGED <<droppable, geoVars, fnVars>>

\* clearAll: the button is disabled only when both lists are empty.
ClearAll ==
  /\ mounted /\ ~effDirty
  /\ ~(Len(photos) = 0 /\ Len(processed) = 0)
  /\ photos' = <<>> /\ processed' = <<>>
  /\ progress' = [done |-> 0, total |-> 0]
  /\ errorMsg' = ""
  /\ effDirty' = TRUE
  /\ UNCHANGED <<mounted, canUseWorker, user, isProcessing, effPhotos,
                 effProcessed, runVars, timerVars, workerVars,
                 addDocCall, ghostVars>>
  /\ RevokeAll(Urls(photos) \cup Urls(processed))
  /\ UNCHANGED styleVars
  /\ UNCHANGED <<droppable, geoVars, fnVars>>

\* StartBatch as it would be without line 541: the previous results are
\* dropped from the list but their URLs are not released.
StartBatchKeepsUrls ==
  /\ mounted /\ ~effDirty
  /\ ~(Len(photos) = 0 \/ isProcessing)
  /\ run < MaxRuns
  /\ errorMsg' = ""
  /\ isProcessing' = TRUE
  /\ progress' = [done |-> 0, total |-> Len(photos)]
  /\ processed' = <<>>
  /\ effDirty' = TRUE
  /\ results' = <<>>
  /\ run' = run + 1
  /\ runPhotos' = photos
  /\ runSettings' = SettingsForRender(style)
  /\ style' = style
  /\ mIdx' = 0
  /\ settled' = FALSE /\ gotAnyMessage' = FALSE /\ shouldFallback' = FALSE
  /\ IF canUseWorker
       THEN /\ workerRef' = run + 1
            /\ workerAlive' = TRUE
            /\ wState' = "running" /\ wNext' = 0
            /\ outbox' = <<>>
            /\ wSettings' = WorkerSettingsOf(runSettings')
            /\ startupArmed' = TRUE
            /\ overallArmed' = TRUE
            /\ staleTimers' = staleTimers + (IF overallArmed THEN 1 ELSE 0)
            /\ pc' = "waiting"
       ELSE /\ UNCHANGED <<workerVars, wSettings, timerVars>>
            /\ pc' = "main"
  /\ endCause' = "none" /\ wFailedAt' = 0 /\ mFailedAt' = 0
  /\ addDocCall' = NoCall
  /\ UNCHANGED <<mounted, canUseWorker, user, photos, effPhotos, effProcessed>>
  /\ RevokeAll({})
  /\ UNCHANGED <<droppable, geoVars, fnVars>>

\* StartBatch as it would be without the test of isProcessing at line 536
\* (and with the button left enabled).
StartBatchUnguarded ==
  /\ mounted /\ ~effDirty
  /\ ~(Len(photos) = 0)
  /\ run < MaxRuns
  /\ errorMsg' = ""
  /\ isProcessing' = TRUE
  /\ progress' = [done |-> 0, total |-> Len(photos)]
  /\ processed' = <<>>
  /\ effDirty' = TRUE
  /\ results' = <<>>
  /\ run' = run + 1
  /\ runPhotos' = photos
  /\ runSettings' = SettingsForRender(style)
  /\ style' = style
  /\ mIdx' = 0
  /\ settled' = FALSE /\ gotAnyMessage' = FALSE /\ shouldFallback' = FALSE
  /\ IF canUseWorker
       THEN /\ workerRef' = run + 1
            /\ workerAlive' = TRUE
            /\ wState' = "running" /\ wNext' = 0
            /\ outbox' = <<>>
            /\ wSettings' = WorkerSettingsOf(runSettings')
            /\ startupArmed' = TRUE
            /\ overallArmed' = TRUE
            /\ staleTimers' = staleTimers + (IF overallArmed THEN 1 ELSE 0)
            /\ pc' = "waiting"
       ELSE /\ UNCHANGED <<workerVars, wSettings, timerVars>>
            /\ pc' = "main"
  /\ endCause' = "none" /\ wFailedAt' = 0 /\ mFailedAt' = 0
  /\ addDocCall' = NoCall
  /\ UNCHANGED <<mounted, canUseWorker, user, photos, effPhotos, effProcessed>>
  /\ RevokeAll(Urls(processed))
  /\ UNCHANGED <<droppable, geoVars, fnVars>>

\* processPhotos up to its first await.
StartBatch ==
  /\ mounted /\ ~effDirty
  /\ ~(Len(photos) = 0 \/ isProcessing)
  /\ run < MaxRuns
  /\ errorMsg' = ""
  /\ isProcessing' = TRUE
  /\ progress' = [done |-> 0, total |-> Len(photos)]
  /\ processed' = <<>>
  /\ effDirty' = TRUE
  /\ results' = <<>>
  /\ run' = run + 1
  /\ runPhotos' = photos
  /\ runSettings' = SettingsForRender(style)
  /\ style' = style
  /\ mIdx' = 0
  /\ settled' = FALSE /\ gotAnyMessage' = FALSE /\ shouldFallback' = FALSE
  /\ IF canUseWorker
       THEN /\ workerRef' = run + 1
            /\ workerAlive' = TRUE
            /\ wState' = "running" /\ wNext' = 0
            /\ outbox' = <<>>
            /\ wSettings' = WorkerSettingsOf(runSettings')
            /\ startupArmed' = TRUE
            /\ overallArmed' = TRUE
            /\ staleTimers' = staleTimers + (IF overallArmed THEN 1 ELSE 0)
            /\ pc' = "waiting"
       ELSE /\ UNCHANGED <<workerVars, wSettings, timerVars>>
            /\ pc' = "main"
  /\ endCause' = "none" /\ wFailedAt' = 0 /\ mFailedAt' = 0
  /\ addDocCall' = NoCall
  /\ UNCHANGED <<mounted, canUseWorker, user, photos, effPhotos, effProcessed>>
  /\ RevokeAll(Urls(processed))
  /\ UNCHANGED <<droppable, geoVars, fnVars>>

\* processPhotos called with nothing pending or during a run: line 536
\* returns before anything is touched.
StartIgnored ==
  /\ mounted /\ ~effDirty
  /\ Len(photos) = 0 \/ isProcessing
  /\ UNCHANGED vars

\* ------------------------------------------------------------ the effect
\* Cleanup of useEffect(..., [photos, processed]): runs with the lists of
\* the render that mounted it, after either list has been replaced; the
\* effect then mounts again with the current lists.
EffectCleanup ==
  /\ mounted /\ effDirty
  /\ TerminateWorker
  /\ effPhotos' = photos /\ effProcessed' = processed
  /\ effDirty' = FALSE
  /\ UNCHANGED <<mounted, canUseWorker, user, uiVars, runVars,
                 timerVars, workerRef, addDocCall, ghostVars>>
  /\ RevokeAll(Urls(effPhotos) \cup Urls(effProcessed))
  /\ UNCHANGED <<style, runSettings>>
  /\ UNCHANGED <<droppable, geoVars, fnVars>>

\* Unmount: the cleanup of the mounted effect runs a last time (the worker
\* is terminated, the URLs of both lists are revoked) and the component's
\* state is gone.
Unmount ==
  /\ mounted /\ ~effDirty
  /\ mounted' = FALSE
  /\ TerminateWorker
  /\ photos' = <<>> /\ processed' = <<>> /\ results' = <<>>
  /\ progress' = [done |-> 0, total |-> 0]
  /\ isProcessing' = FALSE /\ errorMsg' = ""
  /\ effPhotos' = <<>> /\ effProcessed' = <<>> /\ effDirty' = FALSE
  /\ run' = 0 /\ runPhotos' = <<>>
  /\ pc' = "idle" /\ mIdx' = 0
  /\ settled' = FALSE /\ gotAnyMessage' = FALSE /\ shouldFallback' = FALSE
  /\ startupArmed' = FALSE /\ overallArmed' = FALSE /\ staleTimers' = 0
  /\ workerRef' = 0
  /\ addDocCall' = NoCall
  /\ endCause' = "none" /\ wFailedAt' = 0 /\ mFailedAt' = 0
  /\ UNCHANGED <<canUseWorker, user>>
  /\ RevokeAll(Urls(effPhotos) \cup Urls(effProcessed))
  /\ style' = DefaultStyle /\ runSettings' = NoSettings
  /\ geocodeCache' = {} /\ requests' = EmptyBag
  /\ UNCHANGED <<droppable, fnVars>>

\* ----------------------------------------------------- the worker's side
\* One iteration of the worker's loop that succeeds: processOne, then the
\* progress and the result message, posted back to back.
WorkerComposite ==
  /\ mounted /\ workerAlive /\ wState = "running"
  /\ wNext < Len(runPhotos)
  /\ outbox' = outbox \o <<Msg("progress", wNext + 1, Len(runPhotos)),
                           Msg("result", wNext + 1, wSettings)>>
  /\ wNext' = wNext + 1
  /\ UNCHANGED <<mounted, canUseWorker, user, uiVars, revoked, effVars,
                 runVars, timerVars, workerRef, workerAlive,
                 wState, addDocCall, ghostVars>>
  /\ UNCHANGED styleVars
  /\ UNCHANGED <<droppable, geoVars, fnVars>>

\* One iteration in which processOne throws (decoding fails, no 2D context,
\* or convertToBlob fails): the catch posts an error message and the handler
\* ends.
WorkerFail ==
  /\ mounted /\ workerAlive /\ wState = "running"
  /\ wNext < Len(runPhotos)
  /\ outbox' = Append(outbox, Msg("error", 0, 0))
  /\ wState' = "stopped"
  /\ wFailedAt' = wNext + 1
  /\ UNCHANGED <<mounted, canUseWorker, user, uiVars, revoked, effVars,
                 runVars, timerVars, workerRef, workerAlive,
                 wNext, addDocCall, endCause, mFailedAt>>
  /\ UNCHANGED styleVars
  /\ UNCHANGED <<droppable, geoVars, fnVars>>

\* The loop is over: the worker posts complete.
WorkerComplete ==
  /\ mounted /\ workerAlive /\ wState = "running"
  /\ wNext = Len(runPhotos)
  /\ outbox' = Append(outbox, Msg("complete", 0, 0))
  /\ wState' = "stopped"
  /\ UNCHANGED <<mounted, canUseWorker, user, uiVars, revoked, effVars,
                 runVars, timerVars, workerRef, workerAlive,
                 wNext, addDocCall, ghostVars>>
  /\ UNCHANGED styleVars
  /\ UNCHANGED <<droppable, geoVars, fnVars>>

\* ------------------------------------------- worker.onmessage, by payload
DeliverProgress ==
  /\ mounted /\ workerAlive /\ Len(outbox) > 0
  /\ Head(outbox).type = "progress"
  /\ outbox' = Tail(outbox)
  /\ gotAnyMessage' = TRUE
  /\ startupArmed' = FALSE
  /\ progress' = [done |-> Head(outbox).a, total |-> Head(outbox).b]
  /\ UNCHANGED <<mounted, canUseWorker, user, photos, processed, isProcessing,
                 errorMsg, revoked, effVars, run, runPhotos,
                 results, pc, mIdx, settled, shouldFallback,
                 overallArmed, staleTimers, workerRef, workerAlive, wState,
                 wNext,
                 addDocCall, ghostVars>>
  /\ UNCHANGED styleVars
  /\ UNCHANGED <<droppable, geoVars, fnVars>>

\* DeliverResult as it would be if the handler displayed the new entry alone
\* (setProcessed([entry]) for setProcessed([...results])).
DeliverResultOnlyLatest ==
  /\ mounted /\ workerAlive /\ Len(outbox) > 0
  /\ Head(outbox).type = "result"
  /\ outbox' = Tail(outbox)
  /\ gotAnyMessage' = TRUE
  /\ startupArmed' = FALSE
  /\ results' = Append(results, ProcessedPhoto(run, Head(outbox).a, "worker",
                                           Head(outbox).b))
  /\ processed' = <<results'[Len(results')]>>
  /\ effDirty' = TRUE
  /\ UNCHANGED <<mounted, canUseWorker, user, photos, progress, isProcessing,
                 errorMsg, revoked, effPhotos, effProcessed, run,
                 runPhotos, pc, mIdx, settled, shouldFallback,
                 overallArmed, staleTimers, workerRef, workerAlive, wState,
                 wNext,
                 addDocCall, ghostVars>>
  /\ UNCHANGED styleVars
  /\ UNCHANGED <<droppable, geoVars, fnVars>>

DeliverResult ==
  /\ mounted /\ workerAlive /\ Len(outbox) > 0
  /\ Head(outbox).type = "result"
  /\ outbox' = Tail(outbox)
  /\ gotAnyMessage' = TRUE
  /\ startupArmed' = FALSE
  /\ results' = Append(results, ProcessedPhoto(run, Head(outbox).a, "worker",
                                           Head(outbox).b))
  /\ processed' = results'
  /\ effDirty' = TRUE
  /\ UNCHANGED <<mounted, canUseWorker, user, photos, progress, isProcessing,
                 errorMsg, revoked, effPhotos, effProcessed, run,
                 runPhotos, pc, mIdx, settled, shouldFallback,
                 overallArmed, staleTimers, workerRef, workerAlive, wState,
                 wNext,
                 addDocCall, ghostVars>>
  /\ UNCHANGED styleVars
  /\ UNCHANGED <<droppable, geoVars, fnVars>>

DeliverError ==
  /\ mounted /\ workerAlive /\ Len(outbox) > 0
  /\ Head(outbox).type = "error"
  /\ outbox' = Tail(outbox)
  /\ gotAnyMessage' = TRUE
  /\ startupArmed' = FALSE
  /\ errorMsg' = WorkerErrorText
  /\ overallArmed' = FALSE /\ staleTimers' = staleTimers
  /\ UNCHANGED <<mounted, canUseWorker, user, photos, processed, progress,
                 isProcessing, revoked, effVars, run, runPhotos,
                 results, pc, mIdx, settled, shouldFallback,
                 workerRef, workerAlive, wState, wNext, addDocCall, ghostVars>>
  /\ UNCHANGED styleVars
  /\ UNCHANGED <<droppable, geoVars, fnVars>>

DeliverComplete ==
  /\ mounted /\ workerAlive /\ Len(outbox) > 0
  /\ Head(outbox).type = "complete"
  /\ outbox' = Tail(outbox)
  /\ gotAnyMessage' = TRUE
  /\ startupArmed' = FALSE
  /\ overallArmed' = FALSE /\ staleTimers' = staleTimers
  /\ shouldFallback' = shouldFallback
  /\ endCause' = IF settled THEN endCause ELSE "complete"
  /\ Finish
  /\ UNCHANGED <<mounted, canUseWorker, user, photos, processed, progress,
                 errorMsg, revoked, effVars, run, runPhotos,
                 results, workerRef, workerAlive, wState, wNext,
                 wFailedAt, mFailedAt>>
  /\ UNCHANGED styleVars
  /\ UNCHANGED <<droppable, geoVars, fnVars>>

\* worker.onerror and worker.onmessageerror (the same body).
WorkerErrorEvent ==
  /\ mounted /\ workerAlive /\ wState = "running"
  /\ overallArmed' = FALSE /\ staleTimers' = staleTimers
  /\ startupArmed' = FALSE
  /\ errorMsg' = ProcessFailed
  /\ shouldFallback' = shouldFallback
  /\ endCause' = IF settled THEN endCause ELSE "workerError"
  /\ Finish
  /\ UNCHANGED <<mounted, canUseWorker, user, photos, processed, progress,
                 revoked, effVars, run, runPhotos, results, gotAnyMessage,
                 workerVars, wFailedAt, mFailedAt>>
  /\ UNCHANGED styleVars
  /\ UNCHANGED <<droppable, geoVars, fnVars>>

\* ------------------------------------------------------------ the timers
\* StartupTimeout as it would be if the stall ended the wait without the
\* retry: the worker is left running and the run goes on to its end.
StartupTimeoutNoFallback ==
  /\ mounted /\ startupArmed
  /\ startupArmed' = FALSE
  /\ IF gotAnyMessage
       THEN UNCHANGED <<shouldFallback, settled, pc, mIdx, isProcessing,
                        addDocCall, endCause>>
       ELSE /\ shouldFallback' = FALSE
            /\ endCause' = IF settled THEN endCause ELSE "stall"
            /\ Finish
  /\ UNCHANGED <<mounted, canUseWorker, user, photos, processed, progress,
                 errorMsg, revoked, effVars, run, runPhotos, results,
                 gotAnyMessage, overallArmed, staleTimers, workerVars,
                 wFailedAt, mFailedAt>>
  /\ UNCHANGED styleVars
  /\ UNCHANGED <<droppable, geoVars, fnVars>>

\* The 1.5 s startup timer fires.
StartupTimeout ==
  /\ mounted /\ startupArmed
  /\ startupArmed' = FALSE
  /\ IF gotAnyMessage
       THEN UNCHANGED <<shouldFallback, workerAlive, wState, wNext, outbox,
                        wSettings, settled, pc, mIdx, isProcessing,
                        addDocCall, endCause>>
       ELSE /\ shouldFallback' = TRUE
            /\ TerminateWorker
            /\ endCause' = IF settled THEN endCause ELSE "stall"
            /\ Finish
  /\ UNCHANGED <<mounted, canUseWorker, user, photos, processed, progress,
                 errorMsg, revoked, effVars, run, runPhotos,
                 results, gotAnyMessage, overallArmed, staleTimers, workerRef,
                 wFailedAt, mFailedAt>>
  /\ UNCHANGED <<style, runSettings>>
  /\ UNCHANGED <<droppable, geoVars, fnVars>>

\* OverallTimeout as it would be if the expiry forced the main-thread retry
\* the way the startup stall does.
OverallTimeoutRetries ==
  /\ mounted /\ overallArmed
  /\ startupArmed => ~(StartupGraceMs < OverallTimeoutMs)
  /\ overallArmed' = FALSE
  /\ errorMsg' = ProcessFailed
  /\ shouldFallback' = TRUE
  /\ endCause' = IF settled THEN endCause ELSE "timeout"
  /\ Finish
  /\ UNCHANGED <<mounted, canUseWorker, user, photos, processed, progress,
                 revoked, effVars, run, runPhotos, results, gotAnyMessage,
                 startupArmed, staleTimers, workerVars, wFailedAt, mFailedAt>>
  /\ UNCHANGED styleVars
  /\ UNCHANGED <<droppable, geoVars, fnVars>>

\* The 60 s timer of the current run fires.  Both timers of a run are set in
\* the same task, so the 60 s one cannot fire while the 1.5 s one is pending.
OverallTimeout ==
  /\ mounted /\ overallArmed
  /\ startupArmed => ~(StartupGraceMs < OverallTimeoutMs)
  /\ overallArmed' = FALSE
  /\ errorMsg' = ProcessFailed
  /\ shouldFallback' = shouldFallback
  /\ endCause' = IF settled THEN endCause ELSE "timeout"
  /\ Finish
  /\ UNCHANGED <<mounted, canUseWorker, user, photos, processed, progress,
                 revoked, effVars, run, runPhotos, results, gotAnyMessage,
                 startupArmed, staleTimers, workerVars, wFailedAt, mFailedAt>>
  /\ UNCHANGED styleVars
  /\ UNCHANGED <<droppable, geoVars, fnVars>>

\* The 60 s timer of an earlier run fires: that run's promise is settled, so
\* its finish() does nothing.
StaleTimeout ==
  /\ mounted /\ staleTimers > 0
  /\ staleTimers' = staleTimers - 1
  /\ errorMsg' = ProcessFailed
  /\ UNCHANGED <<mounted, canUseWorker, user, photos, processed, progress,
                 isProcessing, revoked, effVars, runVars, startupArmed,
                 overallArmed, workerVars, addDocCall, ghostVars>>
  /\ UNCHANGED styleVars
  /\ UNCHANGED <<droppable, geoVars, fnVars>>

\* ------------------------------------------------- processInMainThread
\* MainComposite as it would be if onResult put the new entry in front of the
\* earlier ones (unshift for push).
MainCompositeUnshift ==
  /\ mounted /\ pc \in {"fallback", "main"}
  /\ mIdx < Len(runPhotos)
  /\ results' = <<ProcessedPhoto(run, mIdx + 1, "main", runSettings)>> \o results
  /\ processed' = results'
  /\ effDirty' = TRUE
  /\ progress' = [done |-> mIdx + 1, total |-> Len(runPhotos)]
  /\ mIdx' = mIdx + 1
  /\ UNCHANGED <<mounted, canUseWorker, user, photos, isProcessing, errorMsg,
                 revoked, effPhotos, effProcessed, run, runPhotos, pc, settled,
                 gotAnyMessage, shouldFallback, timerVars, workerVars,
                 addDocCall, ghostVars>>
  /\ UNCHANGED styleVars
  /\ UNCHANGED <<droppable, geoVars, fnVars>>

\* MainComposite as it would be if it read the settings of the current
\* render instead of those its closure captured.
MainCompositeLiveSettings ==
  /\ mounted /\ pc \in {"fallback", "main"}
  /\ mIdx < Len(runPhotos)
  /\ results' = Append(results,
                  ProcessedPhoto(run, mIdx + 1, "main",
                                 SettingsForRender(style)))
  /\ processed' = results'
  /\ effDirty' = TRUE
  /\ progress' = [done |-> mIdx + 1, total |-> Len(runPhotos)]
  /\ mIdx' = mIdx + 1
  /\ UNCHANGED <<mounted, canUseWorker, user, photos, isProcessing, errorMsg,
                 revoked, effPhotos, effProcessed, run, runPhotos,
                 pc, settled, gotAnyMessage, shouldFallback, timerVars,
                 workerVars, addDocCall, ghostVars>>
  /\ UNCHANGED styleVars
  /\ UNCHANGED <<droppable, geoVars, fnVars>>

\* One iteration that succeeds: onResult, then onProgress.
MainComposite ==
  /\ mounted /\ pc \in {"fallback", "main"}
  /\ mIdx < Len(runPhotos)
  /\ results' = Append(results,
                  ProcessedPhoto(run, mIdx + 1, "main", runSettings))
  /\ processed' = results'
  /\ effDirty' = TRUE
  /\ progress' = [done |-> mIdx + 1, total |-> Len(runPhotos)]
  /\ mIdx' = mIdx + 1
  /\ UNCHANGED <<mounted, canUseWorker, user, photos, isProcessing, errorMsg,
                 revoked, effPhotos, effProcessed, run, runPhotos,
                 pc, settled, gotAnyMessage, shouldFallback, timerVars,
                 workerVars, addDocCall, ghostVars>>
  /\ UNCHANGED styleVars
  /\ UNCHANGED <<droppable, geoVars, fnVars>>

\* One iteration that throws (decoding fails, no 2D context, or toBlob gives
\* null): processPhotos' catch and finally run.
MainFail ==
  /\ mounted /\ pc \in {"fallback", "main"}
  /\ mIdx < Len(runPhotos)
  /\ errorMsg' = ProcessFailed
  /\ isProcessing' = FALSE
  /\ pc' = "done"
  /\ mFailedAt' = mIdx + 1
  /\ wFailedAt' = wFailedAt
  /\ UNCHANGED <<mounted, canUseWorker, user, photos, processed, progress,
                 revoked, effVars, run, runPhotos, results, mIdx, settled, gotAnyMessage, shouldFallback,
                 timerVars, workerVars, addDocCall, endCause>>
  /\ UNCHANGED styleVars
  /\ UNCHANGED <<droppable, geoVars, fnVars>>

\* The loop is over: processInMainThread returns.
MainReturn ==
  /\ mounted /\ pc \in {"fallback", "main"}
  /\ mIdx = Len(runPhotos)
  /\ endCause' = endCause
  /\ AfterPipeline
  /\ UNCHANGED <<mounted, canUseWorker, user, photos, processed, progress,
                 errorMsg, revoked, effVars, run, runPhotos,
                 results, mIdx, settled, gotAnyMessage, shouldFallback,
                 timerVars, workerVars, wFailedAt, mFailedAt>>
  /\ UNCHANGED styleVars
  /\ UNCHANGED <<droppable, geoVars, fnVars>>

\* ------------------------------------------------------------- history
\* addDoc resolves.
HistoryResolve ==
  /\ mounted /\ pc = "history"
  /\ pc' = "done"
  /\ isProcessing' = FALSE
  /\ UNCHANGED <<mounted, canUseWorker, user, photos, processed, progress,
                 errorMsg, revoked, effVars, run, runPhotos,
                 results, mIdx, settled, gotAnyMessage, shouldFallback,
                 timerVars, workerVars, addDocCall, ghostVars>>
  /\ UNCHANGED styleVars
  /\ UNCHANGED <<droppable, geoVars, fnVars>>

\* HistoryReject as it would be if the catch also threw the run's results
\* away.
HistoryRejectDiscards ==
  /\ mounted /\ pc = "history"
  /\ pc' = "done"
  /\ errorMsg' = ProcessFailed
  /\ isProcessing' = FALSE
  /\ results' = <<>>
  /\ processed' = <<>>
  /\ effDirty' = TRUE
  /\ UNCHANGED <<mounted, canUseWorker, user, photos, progress, revoked,
                 effPhotos, effProcessed, run, runPhotos, mIdx, settled,
                 gotAnyMessage, shouldFallback, timerVars, workerVars,
                 addDocCall, ghostVars>>
  /\ UNCHANGED styleVars
  /\ UNCHANGED <<droppable, geoVars, fnVars>>

\* addDoc rejects: catch, then finally.
HistoryReject ==
  /\ mounted /\ pc = "history"
  /\ pc' = "done"
  /\ errorMsg' = ProcessFailed
  /\ isProcessing' = FALSE
  /\ UNCHANGED <<mounted, canUseWorker, user, photos, processed, progress,
                 revoked, effVars, run, runPhotos, results, mIdx, settled, gotAnyMessage, shouldFallback,
                 timerVars, workerVars, addDocCall, ghostVars>>
  /\ UNCHANGED styleVars
  /\ UNCHANGED <<droppable, geoVars, fnVars>>

\* ------------------------------------------------ geocoding settlements
\* The reverseGeocode call q settles with the service's answer resp, and
\* triggerReverseGeocode runs from its await to its end.
Settle(q, resp) ==
  LET outcome == reverseGeocode(resp)
  IN  /\ mounted
      /\ BagIn(q, requests)
      /\ requests' = requests (-) SetToBag({q})
      /\ geocodeCache' = IF outcome.kind = "value" /\ outcome.text # <<>>
                           THEN CacheSet(geocodeCache, q.key, outcome.text)
                           ELSE geocodeCache
      /\ photos' = AfterResolve(photos, q.id, outcome)
      /\ effDirty' = TRUE
      /\ UNCHANGED <<mounted, canUseWorker, user, processed, progress,
                     isProcessing, errorMsg, revoked, effPhotos, effProcessed,
                     runVars, timerVars, workerVars, addDocCall, ghostVars,
                     styleVars, droppable, fnVars>>

GeocodeSettle ==
  \E q \in BagToSet(requests) : \E resp \in Responses : Settle(q, resp)

\* ------------------------------------------- functions on their own
\* Everything of the component: a function applied on its own changes none.
appVars == <<mounted, photos, errorMsg, revoked, effVars, batchVars,
             droppable, geoVars>>

\* The descriptions a timestamp tag may carry: none, "", blanks, and a date
\* and time with blanks around; k tells the three tags' dates apart.
TagValues(k) ==
  {Absent, Tag(<<>>), Tag(<<Sp, Sp>>), Tag(<<Sp, ColonDate(k), Sp, Word(k), Sp>>)}

DateExifs ==
  {Exif(o, d, m, NoNumber, "N", NoNumber, "E") :
     o \in TagValues(1), d \in TagValues(2), m \in TagValues(3)}

\* The drafts and settings the two compositing paths are compared on.
LineItems ==
  {[shotAt |-> sh, locationText |-> loc] :
     sh \in {UnknownDate, <<DashDate(1), Sp, Word(1)>>, <<>>},
     loc \in {UnknownLocation, FallbackLocation(Gps(10, 20)), <<Word(1)>>,
              <<Word(1), Comma, Sp, Word(2)>>, <<>>, <<Sp>>}}

ApplyShotAt ==
  /\ \E exif \in DateExifs :
       /\ call' = [NoCallYet EXCEPT !.fn = "ShotAt", !.exif = exif]
       /\ ret' = Ret(Value(ShotAt(exif)), <<>>)
  /\ UNCHANGED appVars

ApplyReverseGeocode ==
  /\ \E resp \in Responses :
       /\ call' = [NoCallYet EXCEPT !.fn = "reverseGeocode", !.resp = resp]
       /\ ret' = Ret(reverseGeocode(resp), <<>>)
  /\ UNCHANGED appVars

ApplyMainLines ==
  /\ \E item \in LineItems : \E st \in Styles :
       /\ call' = [NoCallYet EXCEPT !.fn = "MainLines", !.item = item,
                                    !.settings = SettingsForRender(st)]
       /\ ret' = Ret(Null, MainLines(item, SettingsForRender(st)))
  /\ UNCHANGED appVars

ApplyWorkerLines ==
  /\ \E item \in LineItems : \E st \in Styles :
       /\ call' = [NoCallYet EXCEPT
                      !.fn = "WorkerLines", !.item = item,
                      !.settings = WorkerSettingsOf(SettingsForRender(st))]
       /\ ret' = Ret(Null,
                     WorkerLines(item, WorkerSettingsOf(SettingsForRender(st))))
  /\ UNCHANGED appVars

\* The inputs of the layout: font sizes of the slider (10 to 100) from end
\* to end, among them one whose padX is rounded down; canvases from one
\* pixel to larger than any panel; text widths (tenths of a pixel) from
\* nothing to wider than any canvas.
FontSizes == {10, 32, 45, 100}

Bitmaps == {[width |-> w, height |-> h] : w \in {1, 200, 4000}, h \in {1, 200, 3000}}

TextWidths == {0, 1234, 50005}

LayoutSettings ==
  {[SettingsForRender(st) EXCEPT !.fontSize = f] : st \in Styles, f \in FontSizes}

\* The drafts the pending list can hold: the timestamp is the sentinel or a
\* trimmed non-empty text; the location is the sentinel, the pair of
\* coordinates, or a non-empty text the service returned.
LayoutItems ==
  {item \in LineItems : item.shotAt # <<>> /\ item.locationText # <<>>}

\* The layout is applied to inputs fixed beforehand: a draft, settings, a
\* decoded bitmap and the widths the canvas measures.
LayoutInputs ==
  {[NoCallYet EXCEPT !.item = item, !.settings = settings,
                     !.bitmap = bitmap, !.widths = widths] :
     item \in LayoutItems, settings \in LayoutSettings, bitmap \in Bitmaps,
     widths \in [1..2 -> TextWidths]}

LayoutInit ==
  FreshApp /\ droppable = PlainFiles /\ canUseWorker /\ ~user
           /\ call \in LayoutInputs /\ ret = NoRet

ApplyMainLayout ==
  /\ call' = [call EXCEPT !.fn = "MainLayout"]
  /\ ret' = [Ret(Null, MainLines(call.item, call.settings)) EXCEPT
               !.box = MainLayout(call.item, call.settings, call.bitmap,
                                  call.widths)]
  /\ UNCHANGED appVars

ApplyWorkerLayout ==
  /\ call' = [call EXCEPT !.fn = "WorkerLayout"]
  /\ ret' = [Ret(Null, WorkerLines(call.item, WorkerSettingsOf(call.settings)))
               EXCEPT !.box = WorkerLayout(call.item,
                                           WorkerSettingsOf(call.settings),
                                           call.bitmap, call.widths)]
  /\ UNCHANGED appVars

\* -------------------------------------------------------- specification
Next ==
  \/ Drop
  \/ SetStyle
  \/ ClearAll
  \/ StartBatch
  \/ StartIgnored
  \/ EffectCleanup
  \/ Unmount
  \/ WorkerComposite
  \/ WorkerFail
  \/ WorkerComplete
  \/ DeliverProgress
  \/ DeliverResult
  \/ DeliverError
  \/ DeliverComplete
  \/ WorkerErrorEvent
  \/ StartupTimeout
  \/ OverallTimeout
  \/ StaleTimeout
  \/ MainComposite
  \/ MainFail
  \/ MainReturn
  \/ HistoryResolve
  \/ HistoryReject

Spec == Init /\ [][Next]_vars

\* The intake: drops, geocoding, clearAll, the effect, unmount.
IntakeNext ==
  \/ Drop
  \/ GeocodeSettle
  \/ ClearAll
  \/ EffectCleanup
  \/ Unmount

IntakeSpec == IntakeInit /\ [][IntakeNext]_vars

\* Batch runs beside reverse geocoding: one kind of file, which carries a
\* position, no signed-in user (so no history write), and every step of the
\* intake and of the coordinator.
GeoFiles ==
  {File(n, lm, Exif(Absent, Absent, Absent, GpsTag(10), "N", GpsTag(20), "E")) :
     n \in FileNames, lm \in LastModifiedValues}

RunInit == FreshMount /\ droppable = GeoFiles /\ canUseWorker /\ ~user

\* A request settles: the service is out of reach, or it answers with a name.
RunResponses ==
  {Response(FALSE, FALSE, FALSE, FALSE, <<>>),
   Response(TRUE, TRUE, TRUE, TRUE, <<Word(1)>>)}

RunSettle ==
  \E q \in BagToSet(requests) : \E resp \in RunResponses : Settle(q, resp)

RunNext ==
  \/ Drop
  \/ RunSettle
  \/ ClearAll
  \/ StartBatch
  \/ StartIgnored
  \/ EffectCleanup
  \/ Unmount
  \/ WorkerComposite
  \/ WorkerFail
  \/ WorkerComplete
  \/ DeliverProgress
  \/ DeliverResult
  \/ DeliverError
  \/ DeliverComplete
  \/ WorkerErrorEvent
  \/ StartupTimeout
  \/ OverallTimeout
  \/ StaleTimeout
  \/ MainComposite
  \/ MainFail
  \/ MainReturn

RunSpec == RunInit /\ [][RunNext]_vars

\* The pure functions, each applied to every input of a bounded set.
FnNext ==
  \/ ApplyShotAt
  \/ ApplyReverseGeocode
  \/ ApplyMainLines
  \/ ApplyWorkerLines

FnSpec == Init /\ [][FnNext]_vars

\* The layout of the two compositing paths, applied to every input of a
\* bounded set, any number of times.
LayoutNext ==
  \/ ApplyMainLayout
  \/ ApplyWorkerLayout

LayoutSpec == LayoutInit /\ [][LayoutNext]_vars

\* What the scheduling guarantees: React runs a pending cleanup, the worker
\* and the main-thread loop keep going, posted messages are delivered, armed
\* timers fire and addDoc settles.  Nothing obliges the user to act or the
\* worker to raise an error event.
Fairness ==
  /\ WF_vars(EffectCleanup)
  /\ WF_vars(WorkerComposite \/ WorkerFail)
  /\ WF_vars(WorkerComplete)
  /\ WF_vars(DeliverProgress)
  /\ WF_vars(DeliverResult)
  /\ WF_vars(DeliverError)
  /\ WF_vars(DeliverComplete)
  /\ WF_vars(StartupTimeout)
  /\ WF_vars(OverallTimeout)
  /\ WF_vars(StaleTimeout)
  /\ WF_vars(MainComposite \/ MainFail)
  /\ WF_vars(MainReturn)
  /\ WF_vars(HistoryResolve \/ HistoryReject)

FairSpec == Init /\ [][Next]_vars /\ Fairness

\* ================================================================ claims
IsPrefix(s, t) == Len(s) <= Len(t) /\ \A i \in 1..Len(s) : s[i] = t[i]

C2_ListedUrlsNotRevoked ==
  (Urls(photos) \cup Urls(processed)) \cap revoked = {}

C4_WaitingSilentlyKeepsTimer ==
  (pc = "waiting" /\ ~gotAnyMessage) => startupArmed

C4_FallbackStartsAtFirstImage ==
  pc = "fallback" =>
    /\ endCause = "stall" /\ shouldFallback /\ isProcessing
    /\ ~workerAlive /\ outbox = <<>>
    /\ mIdx = Len(results) /\ mIdx <= Len(runPhotos)
    /\ \A i \in 1..Len(results) : results[i].by = "main"

C4_StallFallsBack ==
  /\ [](C4_WaitingSilentlyKeepsTimer /\ C4_FallbackStartsAtFirstImage)
  /\ [][(StartupTimeout /\ ~gotAnyMessage)
          => /\ ~workerAlive' /\ outbox' = <<>>
             /\ pc' = "fallback" /\ mIdx' = 0
             /\ run' = run /\ runPhotos' = runPhotos
             /\ results' = <<>> /\ isProcessing']_vars

\* A run has just fallen back after a stall and has not composited anything.
C4_Witness ==
  /\ pc = "fallback" /\ endCause = "stall" /\ mIdx = 0
  /\ Len(runPhotos) = MaxFiles /\ ~workerAlive

\* C5: when a run has fallen back after a startup stall and the main thread
\* composited every image, the run ends with exactly one result entry per
\* draft of its snapshot, in draft order, each produced by the main thread;
\* the displayed list is that list (or empty, if clearAll emptied it since).
C5_FallbackYieldsAllInOrder ==
  (pc \in {"history", "done"} /\ endCause = "stall" /\ mFailedAt = 0) =>
    /\ Len(results) = Len(runPhotos)
    /\ \A i \in 1..Len(results) :
         /\ results[i].idx = i
         /\ results[i].id = runPhotos[i].id
         /\ results[i].url = OutputUrl(run, i)
         /\ results[i].by = "main"
    /\ (processed = results \/ processed = <<>>)

\* A fallback run of a full batch has ended with all its results displayed.
C5_Witness ==
  /\ pc = "done" /\ endCause = "stall" /\ mFailedAt = 0
  /\ Len(runPhotos) = MaxFiles /\ processed = results /\ Len(processed) = MaxFiles

\* C6: once a run that fell back after a stall has composited every image,
\* the 60 s timer of that run does not touch the error message.
C6_FallbackIsSilent ==
  [][(endCause = "stall" /\ mFailedAt = 0 /\ pc \in {"history", "done"}
        /\ OverallTimeout)
      => errorMsg' = errorMsg]_vars

\* A run ended by the 60 s timer is past its wait, was never handed to the
\* main thread, and holds worker results only.
C7_TimedOutRunNeverRetries ==
  endCause = "timeout" =>
    /\ pc \in {"history", "done"}
    /\ ~shouldFallback
    /\ mIdx = 0
    /\ \A i \in 1..Len(results) : results[i].by = "worker"

\* C7: when the 60 s timer expires while the coordinator is still waiting
\* for the worker, it records the failure message and ends the wait without
\* the main-thread rerun; the results received so far stay where they are,
\* and a run ended this way never holds a main-thread result.
C7_TimeoutAbandons ==
  /\ []C7_TimedOutRunNeverRetries
  /\ [][(OverallTimeout /\ pc = "waiting")
          => /\ errorMsg' = ProcessFailed
             /\ endCause' = "timeout"
             /\ pc' \in {"history", "done"}
             /\ results' = results
             /\ processed' = processed]_vars

\* The 60 s timer has ended a run that had already shown a result.
C7_Witness ==
  /\ endCause = "timeout" /\ pc = "done" /\ errorMsg = ProcessFailed
  /\ Len(results) > 0 /\ processed = results

C9_ErrorOutcome ==
  \/ HistoryReject
  \/ OverallTimeout
  \/ StaleTimeout
  \/ WorkerErrorEvent
  \/ DeliverError
  \/ MainFail
  \/ WorkerFail

\* C9: no error outcome (history write rejected, 60 s timeout, worker error
\* event, worker error message, compositing failure in either path) changes
\* the displayed results or the run's result list, and within a run the
\* result list only ever grows at its end.
C9_ErrorsKeepResults ==
  /\ [][C9_ErrorOutcome => (processed' = processed /\ results' = results)]_vars
  /\ [][(run' = run /\ mounted') => IsPrefix(results, results')]_vars

\* The history write was rejected after a batch whose results are displayed.
C9_Witness ==
  /\ pc = "done" /\ endCause = "complete" /\ addDocCall # NoCall
  /\ errorMsg = ProcessFailed /\ staleTimers = 0
  /\ Len(processed) = MaxFiles /\ processed = results

C11_BatchStartResets ==
  [][StartBatch
       => /\ errorMsg' = ""
          /\ progress' = [done |-> 0, total |-> Len(photos)]
          /\ processed' = <<>>
          /\ Urls(processed) \subseteq revoked'
          /\ results' = <<>> /\ mIdx' = 0 /\ wNext' = 0 /\ outbox' = <<>>]_vars

\* A second batch has just started over the displayed results of the first.
C11_Witness ==
  /\ run = 2 /\ pc \in {"waiting", "main"} /\ isProcessing
  /\ processed = <<>> /\ results = <<>> /\ progress.done = 0
  /\ progress.total = Len(runPhotos)
  /\ effDirty /\ Len(effProcessed) = MaxFiles
  /\ Urls(effProcessed) \subseteq revoked

\* C12: every image of a run is drawn with the settings computed from the
\* style in force when the run started, in the worker and on the main thread
\* (fallback included), whatever setStyle does while the run is in progress.
C12_SettingsAreSnapshot ==
  /\ [](\A i \in 1..Len(results) : results[i].settings = runSettings)
  /\ [][StartBatch => runSettings' = SettingsForRender(style)]_vars
  /\ [][(run' = run /\ mounted') => runSettings' = runSettings]_vars

\* The style was changed during a run that fell back to the main thread and
\* went on to composite a full batch.
C12_Witness ==
  /\ endCause = "stall" /\ Len(results) = MaxFiles
  /\ SettingsForRender(style) # runSettings
  /\ \A i \in 1..Len(results) :
       results[i].by = "main" /\ results[i].settings = runSettings

\* C13: no two network requests are issued for the same 6-decimal key: at no
\* time are two reverseGeocode calls for one key in flight.
C13_OneRequestPerKey ==
  \A q \in BagToSet(requests) :
    /\ CopiesIn(q, requests) = 1
    /\ \A o \in BagToSet(requests) : o.key = q.key => o = q

\* C14: a draft's isGeocoding is true only while a reverseGeocode call made
\* for its id is in flight, and a settlement of any kind leaves the flag
\* false on every draft with the settled call's id.
C14_FlagOnlyWhileInFlight ==
  /\ [](\A i \in 1..Len(photos) :
          photos[i].isGeocoding
            => \E q \in BagToSet(requests) : q.id = photos[i].id)
  /\ [][\A q \in BagToSet(requests) : \A resp \in Responses :
          Settle(q, resp)
            => \A i \in 1..Len(photos') :
                 photos'[i].id = q.id => ~photos'[i].isGeocoding]_vars

\* A draft with a position whose only request has settled without a name:
\* the flag is down again.
C14_Witness ==
  /\ requests = EmptyBag /\ geocodeCache = {}
  /\ Len(photos) = 1 /\ photos[1].gps.ok /\ ~photos[1].isGeocoding

\* The text a settlement of this kind writes: only a non-empty name.
C15_Writes(resp) ==
  reverseGeocode(resp).kind = "value" /\ reverseGeocode(resp).text # <<>>

\* C15: a settlement by network error, non-success status, malformed body,
\* missing or empty name changes no draft's location and no error message;
\* a settlement with a non-empty name puts that name on the drafts with its
\* id; so a location is always the draft's fallback or a resolved name.
C15_FailureKeepsFallback ==
  /\ [][\A q \in BagToSet(requests) : \A resp \in Responses :
          Settle(q, resp)
            => /\ errorMsg' = errorMsg
               /\ Len(photos') = Len(photos)
               /\ \A i \in 1..Len(photos) :
                    photos'[i].locationText =
                      IF C15_Writes(resp) /\ photos[i].id = q.id
                        THEN resp.name
                        ELSE photos[i].locationText]_vars
  /\ [](\A i \in 1..Len(photos) :
          \/ photos[i].locationText =
               (IF photos[i].gps.ok THEN FallbackLocation(photos[i].gps)
                                    ELSE UnknownLocation)
          \/ \E resp \in Responses :
               C15_Writes(resp) /\ photos[i].locationText = resp.name)

\* Of two drafts with positions, one got its name and the other's request
\* failed: it still shows its coordinates, and no error message is up.
C15_Witness ==
  /\ requests = EmptyBag /\ errorMsg = "" /\ Len(photos) = 2
  /\ photos[1].gps.ok /\ photos[2].gps.ok
  /\ photos[1].locationText = <<Word(1)>>
  /\ photos[2].locationText = FallbackLocation(photos[2].gps)

\* C16: reverseGeocode never raises: whatever the service answers, it
\* returns a name or null.
C16_ResolveNeverRaises ==
  call.fn = "reverseGeocode" => ret.out.kind # "throw"

\* C17: no two drafts in the pending list have the same id.
C17_DraftIdsUnique ==
  \A i \in 1..Len(photos) : \A j \in 1..Len(photos) :
    i # j => photos[i].id # photos[j].id

\* C18: a drop appends exactly one draft per accepted file, in order, and
\* leaves the earlier drafts in place; the draft of a file whose metadata
\* cannot be read carries both sentinels, has no position, is not being
\* geocoded and has had no request issued for it; no error message is shown.
C18_OneDraftPerFile ==
  [][\A n \in 1..MaxFiles : \A files \in [1..n -> droppable] :
       DropFiles(files)
         => /\ Len(photos') = Len(photos) + n
            /\ errorMsg' = ""
            /\ \A i \in 1..Len(photos) : photos'[i].id = photos[i].id
            /\ \A i \in 1..n :
                 LET d == photos'[Len(photos) + i]
                 IN  /\ d.file = files[i]
                     /\ d.id = DraftId(files[i].name, i - 1,
                                       files[i].lastModified)
                     /\ ~files[i].exif.readable
                          => /\ d.shotAt = UnknownDate
                             /\ d.locationText = UnknownLocation
                             /\ ~d.gps.ok /\ ~d.isGeocoding
                             /\ \A q \in BagToSet(requests') :
                                  q.id = d.id
                                    => CopiesIn(q, requests')
                                         = CopiesIn(q, requests)]_vars

\* An unreadable file was dropped together with one that is being geocoded.
C18_Witness ==
  /\ Len(photos) = MaxFiles /\ errorMsg = ""
  /\ requests # EmptyBag
  /\ \E i \in 1..Len(photos) :
       /\ ~photos[i].file.exif.readable
       /\ photos[i].shotAt = UnknownDate
       /\ photos[i].locationText = UnknownLocation

\* A tag counts as present when its description is not blank.
C19_NotBlank(tag) == tag.present /\ Len(Trim(tag.text)) > 0

\* C19: the timestamp is that of the first of original, digitized, modify
\* whose description is not blank, and the sentinel only if all are blank or
\* missing.
C19_FirstNonBlankTag ==
  call.fn = "ShotAt" =>
    ret.out.text =
          (IF C19_NotBlank(call.exif.DateTimeOriginal)
             THEN formatExifDate(call.exif.DateTimeOriginal, UnknownDate)
           ELSE IF C19_NotBlank(call.exif.DateTimeDigitized)
             THEN formatExifDate(call.exif.DateTimeDigitized, UnknownDate)
           ELSE IF C19_NotBlank(call.exif.DateTime)
             THEN formatExifDate(call.exif.DateTime, UnknownDate)
           ELSE UnknownDate)

\* C20: for a draft without any timestamp tag (its shotAt is the sentinel)
\* whose location is known, with showLocation on, either path draws the
\* location line and nothing else.
C20_OnlyLocationLine ==
  ( /\ call.fn \in {"MainLines", "WorkerLines"}
    /\ call.item.shotAt = UnknownDate
    /\ call.settings.showLocation
    /\ ~isUnknownLocationText(call.item.locationText, UnknownLocation) )
    => ret.lines = <<call.item.locationText>>

\* C21: in both execution paths a location line is drawn only if
\* showLocation is true and the location text is neither the unknown
\* sentinel nor a bare numeric "lat, lon" pair; a draft whose location is
\* still the raw-coordinate fallback gets no location line.
C21_LocationLineOnlyIfResolved ==
  (call.fn \in {"MainLines", "WorkerLines"}
     /\ Len(ret.lines) > Len(FilterBoolean(<<call.item.shotAt>>)))
    => /\ call.settings.showLocation
       /\ call.item.locationText # call.settings.unknownLocationText
       /\ ~IsNumericPair(Trim(call.item.locationText))

C21_Witness ==
  /\ call.fn = "WorkerLines"
  /\ call.settings.showLocation
  /\ call.item.locationText = FallbackLocation(Gps(10, 20))
  /\ call.item.shotAt # <<>>
  /\ ret.lines = <<call.item.shotAt>>

C26_PathsAgree ==
  call.fn = "MainLayout"
    => /\ ret.lines = WorkerLines(call.item, WorkerSettingsOf(call.settings))
       /\ ret.box = WorkerLayout(call.item, WorkerSettingsOf(call.settings),
                                 call.bitmap, call.widths)

\* C22: with showLocation false no location text is drawn for any draft,
\* whatever its resolution state, and the panel height is that of a single
\* line: lineHeight + 2 * padY.
C22_SwitchOffOneLine ==
  (call.fn \in {"MainLayout", "WorkerLayout"} /\ ~call.settings.showLocation)
    => /\ ret.lines = <<call.item.shotAt>>
       /\ ret.box.height = LineHeight(FontSize(call.settings))
                             + 2 * PadY(FontSize(call.settings))

\* The main thread has laid out a draft with a resolved location, the switch
\* being off.
C22_Witness ==
  /\ call.fn = "MainLayout" /\ ~call.settings.showLocation
  /\ call.item.locationText = <<Word(1)>>
  /\ Len(ret.lines) = 1
  /\ ret.box.height = LineHeight(FontSize(call.settings))
                        + 2 * PadY(FontSize(call.settings))

\* C24: while an offloaded run is in progress its worker is terminated only
\* by the startup-stall timer, by a new batch start or by the unmount, not
\* by a result being appended to the result list nor by a draft being
\* updated by a geocode settlement.
C24_WorkerEndsOnlyByStallStartUnmount ==
  [][(isProcessing /\ workerAlive /\ ~workerAlive')
       => (StartupTimeout \/ StartBatch \/ Unmount)]_vars

\* C25: at every point during and after a run the result list is, in order,
\* the first k drafts of that run's snapshot for some k: no draft appears
\* twice, none is skipped, and results of the worker and of the main-thread
\* fallback are never mixed in one run.
C25_ResultsArePrefixOfSnapshot ==
  /\ Len(processed) <= Len(runPhotos)
  /\ \A i \in 1..Len(processed) :
       /\ processed[i].idx = i
       /\ processed[i].id = runPhotos[i].id
  /\ \A i, j \in 1..Len(processed) : processed[i].by = processed[j].by

\* An offloaded run of a full batch is waiting with its first result shown.
C25_Witness ==
  /\ isProcessing /\ pc = "waiting" /\ Len(runPhotos) = MaxFiles
  /\ Len(processed) = 1 /\ processed[1].by = "worker" /\ processed[1].idx = 1

\* C27: for any interleaving of geocode settlements and drop completions no
\* update is lost: a settlement changes only the entries with its own id
\* and, when it brings a name, leaves each of them with that name; a drop
\* keeps every entry of the pending list in its place and adds one per file.
C27_NoLostUpdate ==
  /\ [][\A q \in BagToSet(requests) : \A resp \in Responses :
          Settle(q, resp)
            => /\ Len(photos') = Len(photos)
               /\ \A i \in 1..Len(photos) :
                    /\ photos[i].id # q.id => photos'[i] = photos[i]
                    /\ photos'[i].id = photos[i].id
                    /\ photos'[i].url = photos[i].url
                    /\ (photos[i].id = q.id /\ reverseGeocode(resp).kind = "value"
                          /\ reverseGeocode(resp).text # <<>>)
                         => photos'[i].locationText = reverseGeocode(resp).text]_vars
  /\ [][\A n \in 1..MaxFiles : \A files \in [1..n -> droppable] :
          DropFiles(files)
            => /\ Len(photos') = Len(photos) + n
               /\ \A i \in 1..Len(photos) :
                    /\ photos'[i].id = photos[i].id
                    /\ photos'[i].url = photos[i].url
                    /\ photos'[i].locationText # photos[i].locationText
                         => \E k \in 1..n :
                              DraftId(files[k].name, k - 1, files[k].lastModified)
                                = photos[i].id]_vars

\* Two drafts of one drop, at different places, each carry the name its own
\* request brought.
C27_Witness ==
  /\ Len(photos) = 2 /\ requests = EmptyBag
  /\ photos[1].id # photos[2].id
  /\ photos[1].gps.ok /\ photos[2].gps.ok
  /\ GeocodeKey(photos[1].gps) # GeocodeKey(photos[2].gps)
  /\ photos[1].locationText = <<Word(1)>>
  /\ photos[2].locationText = <<Word(2)>>

\* C28: after clearAll the pending list and the result list stay empty until
\* the next drop or the next batch start respectively: as long as nothing
\* has been dropped since the list of a started batch was cleared, no result
\* is displayed.
C28_ClearedStaysEmpty ==
  (mounted /\ run >= 1 /\ photos = <<>>) => processed = <<>>

\* C29: at most one batch run is in progress at any time: a run starts only
\* when none is in progress and a draft is pending, and whatever happens
\* while a run is in progress or nothing is pending starts no run and no
\* worker.
C29_OneRunAtATime ==
  /\ [][(run' # run /\ mounted')
          => (~isProcessing /\ Len(photos) > 0 /\ pc \in {"idle", "done"})]_vars
  /\ [][((isProcessing \/ Len(photos) = 0) /\ mounted')
          => /\ run' = run
             /\ runPhotos' = runPhotos
             /\ workerRef' = workerRef
             /\ workerAlive' => workerAlive]_vars
  /\ [][StartIgnored => UNCHANGED vars]_vars

\* A run is in progress, drafts are pending and no effect is outstanding: a
\* start request can be made, and is ignored.
C29_Witness ==
  /\ mounted /\ isProcessing /\ pc = "waiting" /\ ~effDirty
  /\ Len(photos) > 0 /\ run = 1

\* C30: each result entry carries the timestamp and the location its draft
\* had when the run started: a geocode result arriving after the start
\* updates the draft but not that run's output, and a run never modifies the
\* pending list.
C30_ResultsCarrySnapshot ==
  /\ [](\A i \in 1..Len(results) :
          /\ results[i].shotAt = runPhotos[results[i].idx].shotAt
          /\ results[i].locationText = runPhotos[results[i].idx].locationText)
  /\ [][StartBatch => (runPhotos' = photos /\ photos' = photos)]_vars
  /\ [][(run' = run /\ mounted') => runPhotos' = runPhotos]_vars
  /\ [][(WorkerComposite \/ WorkerFail \/ WorkerComplete \/ DeliverProgress
           \/ DeliverResult \/ DeliverError \/ DeliverComplete
           \/ WorkerErrorEvent \/ StartupTimeout \/ OverallTimeout
           \/ StaleTimeout \/ MainComposite \/ MainFail \/ MainReturn)
          => photos' = photos]_vars

\* The name arrived after the start: the draft shows it, the run's output
\* shows the coordinates the draft had at the start.
C30_Witness ==
  /\ Len(results) >= 1 /\ Len(photos) >= 1
  /\ photos[1].id = results[1].id
  /\ photos[1].locationText = <<Word(1)>>
  /\ results[1].locationText = FallbackLocation(Gps(10, 20))
  /\ runPhotos[1].locationText = FallbackLocation(Gps(10, 20))

====
